---------------------------- MODULE Spec2Model ----------------------------
(***************************************************************************)
(* A model of package dotenv (gogolfing/dotenv): the line parser           *)
(* Sourcer.NameVar with its helpers isNameInvalid and fixVariable, and the *)
(* drivers sourceVisitor, Source, NameVars and SourceFile.                 *)
(*                                                                         *)
(* A Go string is modelled as a sequence of one-character strings.  The    *)
(* character "NUL" stands for the zero byte and "BEL" for the byte 0x07    *)
(* (the value of the escape \a).                                           *)
(***************************************************************************)
EXTENDS Integers, Sequences, FiniteSets, TLC

(***************************************************************************)
(* Bounds of the model.                                                    *)
(***************************************************************************)
\* longest line body drawn for the line parser
MaxBody == 4
\* longest input stream (in lines) drawn for the drivers
MaxLines == 3
\* longest inside of a quoted value drawn for the line parser
MaxQuoted == 2

(***************************************************************************)
(* Package constants.                                                      *)
(***************************************************************************)
DefaultComment == <<"#">>

DefaultQuote == <<"\"">>

DefaultExport == <<"e", "x", "p", "o", "r", "t">>

\* the cutset " \t"
SpaceTab == {" ", "\t"}

(***************************************************************************)
(* The functions of package strings that the parser uses.  Indexes are     *)
(* 0-based as in Go; -1 means absent.                                      *)
(***************************************************************************)
MinOf(S) == CHOOSE x \in S : \A y \in S : x <= y

MaxOf(S) == CHOOSE x \in S : \A y \in S : y <= x

\* s[i:j] of Go
Slice(s, i, j) == SubSeq(s, i + 1, j)

HasPrefix(s, prefix) ==
    /\ Len(s) >= Len(prefix)
    /\ SubSeq(s, 1, Len(prefix)) = prefix

HasSuffix(s, suffix) ==
    /\ Len(s) >= Len(suffix)
    /\ SubSeq(s, Len(s) - Len(suffix) + 1, Len(s)) = suffix

TrimPrefix(s, prefix) ==
    IF HasPrefix(s, prefix) THEN SubSeq(s, Len(prefix) + 1, Len(s)) ELSE s

TrimLeft(s, cutset) ==
    LET keep == {i \in 1..Len(s) : s[i] \notin cutset}
    IN  IF keep = {} THEN <<>> ELSE SubSeq(s, MinOf(keep), Len(s))

TrimRight(s, cutset) ==
    LET keep == {i \in 1..Len(s) : s[i] \notin cutset}
    IN  IF keep = {} THEN <<>> ELSE SubSeq(s, 1, MaxOf(keep))

Index(s, substr) ==
    LET at == {i \in 0..(Len(s) - Len(substr)) :
                   SubSeq(s, i + 1, i + Len(substr)) = substr}
    IN  IF at = {} THEN -1 ELSE MinOf(at)

Contains(s, substr) == Index(s, substr) >= 0

ContainsAny(s, chars) == \E i \in 1..Len(s) : s[i] \in chars

(***************************************************************************)
(* Errors.  Every error value is a record with the same fields, so that    *)
(* any two of them can be compared: kind is the Go type (or the sentinel), *)
(* text the string the error carries, quote the Quote field of             *)
(* ErrValueUnclosedQuote.                                                  *)
(***************************************************************************)
Nil == [kind |-> "nil", text |-> <<>>, quote |-> <<>>]

ErrEmptyLine == [kind |-> "ErrEmptyLine", text |-> <<>>, quote |-> <<>>]

ErrNonVariableLine(line) ==
    [kind |-> "ErrNonVariableLine", text |-> line, quote |-> <<>>]

ErrInvalidName(name) ==
    [kind |-> "ErrInvalidName", text |-> name, quote |-> <<>>]

ErrInvalidWhitespaceValuePrefix(v) ==
    [kind |-> "ErrInvalidWhitespaceValuePrefix", text |-> v, quote |-> <<>>]

ErrValueUnclosedQuote(v, q) ==
    [kind |-> "ErrValueUnclosedQuote", text |-> v, quote |-> q]

\* strconv.ErrSyntax, the failure of the default Unquote
ErrSyntax == [kind |-> "ErrSyntax", text |-> <<>>, quote |-> <<>>]

(***************************************************************************)
(* Sourcer.Unquote as NewSourcer sets it: strconv.Unquote, on a string     *)
(* that starts and ends with a double quote (fixVariable calls it on       *)
(* nothing else).  The interior is read left to right: a backslash starts  *)
(* an escape (\a, \\ and \" are the escapes of this alphabet, any other    *)
(* one is a syntax error, as is a backslash with nothing after it), a bare *)
(* double quote is a syntax error, any other character stands for itself.  *)
(* The result is <<ok, text>>.                                             *)
(***************************************************************************)
RECURSIVE UnquoteChars(_)
UnquoteChars(s) ==
    IF s = <<>> THEN <<TRUE, <<>>>>
    ELSE IF s[1] = "\"" THEN <<FALSE, <<>>>>
    ELSE IF s[1] # "\\" THEN
        LET rest == UnquoteChars(Tail(s))
        IN  IF rest[1] THEN <<TRUE, <<s[1]>> \o rest[2]>> ELSE rest
    ELSE IF Len(s) <= 1 THEN <<FALSE, <<>>>>
    ELSE IF s[2] \notin {"a", "\\", "\""} THEN <<FALSE, <<>>>>
    ELSE
        LET c    == IF s[2] = "a" THEN "BEL" ELSE s[2]
            rest == UnquoteChars(SubSeq(s, 3, Len(s)))
        IN  IF rest[1] THEN <<TRUE, <<c>> \o rest[2]>> ELSE rest

Unquote(s) ==
    IF Len(s) < 2 \/ s[1] # "\"" \/ s[Len(s)] # "\""
    THEN [v |-> <<>>, err |-> ErrSyntax]
    ELSE LET r == UnquoteChars(SubSeq(s, 2, Len(s) - 1))
         IN  IF r[1] THEN [v |-> r[2], err |-> Nil]
                     ELSE [v |-> <<>>, err |-> ErrSyntax]

(***************************************************************************)
(* The line parser.  s is the Sourcer: [Comment, Quote, Export].           *)
(***************************************************************************)
\* isNameInvalid without the test for space and tab
isNameInvalidNoWhitespace(s, name) ==
    \/ Len(name) = 0
    \/ (Contains(name, s.Comment) /\ s.Comment # <<>>)

isNameInvalid(s, name) ==
    \/ Len(name) = 0
    \/ ContainsAny(name, SpaceTab)
    \/ (Contains(name, s.Comment) /\ s.Comment # <<>>)

\* fixVariable taking a value for quoted when the Quote is anywhere in it
fixVariableQuoteAnywhere(s, v0) ==
    LET origV == v0
    IN  IF Len(v0) = 0 THEN [v |-> v0, err |-> Nil]
        ELSE IF Contains(v0, s.Quote) /\ s.Quote # <<>> THEN
            IF HasSuffix(v0, s.Quote) /\ v0 # s.Quote
            THEN Unquote(v0)
            ELSE [v |-> <<>>, err |-> ErrValueUnclosedQuote(origV, s.Quote)]
        ELSE
            LET commentIndex == Index(v0, s.Comment)
                v1 == IF commentIndex >= 0 /\ s.Comment # <<>>
                      THEN Slice(v0, 0, commentIndex) ELSE v0
                v2 == TrimRight(v1, SpaceTab)
            IN  IF v2 # TrimLeft(v2, SpaceTab)
                THEN [v |-> <<>>, err |-> ErrInvalidWhitespaceValuePrefix(origV)]
                ELSE [v |-> v2, err |-> Nil]

\* fixVariable testing for leading whitespace before the right trim
fixVariableChecksBeforeTrim(s, v0) ==
    LET origV == v0
    IN  IF Len(v0) = 0 THEN [v |-> v0, err |-> Nil]
        ELSE IF HasPrefix(v0, s.Quote) /\ s.Quote # <<>> THEN
            IF HasSuffix(v0, s.Quote) /\ v0 # s.Quote
            THEN Unquote(v0)
            ELSE [v |-> <<>>, err |-> ErrValueUnclosedQuote(origV, s.Quote)]
        ELSE
            LET commentIndex == Index(v0, s.Comment)
                v1 == IF commentIndex >= 0 /\ s.Comment # <<>>
                      THEN Slice(v0, 0, commentIndex) ELSE v0
                v2 == TrimRight(v1, SpaceTab)
            IN  IF v1 # TrimLeft(v1, SpaceTab)
                THEN [v |-> <<>>, err |-> ErrInvalidWhitespaceValuePrefix(origV)]
                ELSE [v |-> v2, err |-> Nil]

\* fixVariable giving Unquote the text between the quotes (as an earlier
\* revision did)
fixVariableUnquotesInside(s, v0) ==
    LET origV == v0
    IN  IF Len(v0) = 0 THEN [v |-> v0, err |-> Nil]
        ELSE IF HasPrefix(v0, s.Quote) /\ s.Quote # <<>> THEN
            IF HasSuffix(v0, s.Quote) /\ v0 # s.Quote
            THEN Unquote(Slice(v0, Len(s.Quote), Len(v0) - Len(s.Quote)))
            ELSE [v |-> <<>>, err |-> ErrValueUnclosedQuote(origV, s.Quote)]
        ELSE
            LET commentIndex == Index(v0, s.Comment)
                v1 == IF commentIndex >= 0 /\ s.Comment # <<>>
                      THEN Slice(v0, 0, commentIndex) ELSE v0
                v2 == TrimRight(v1, SpaceTab)
            IN  IF v2 # TrimLeft(v2, SpaceTab)
                THEN [v |-> <<>>, err |-> ErrInvalidWhitespaceValuePrefix(origV)]
                ELSE [v |-> v2, err |-> Nil]

\* fixVariable testing the quote prefix without the test that Quote is not
\* empty
fixVariableQuoteUnguarded(s, v0) ==
    LET origV == v0
    IN  IF Len(v0) = 0 THEN [v |-> v0, err |-> Nil]
        ELSE IF HasPrefix(v0, s.Quote) THEN
            IF HasSuffix(v0, s.Quote) /\ v0 # s.Quote
            THEN Unquote(v0)
            ELSE [v |-> <<>>, err |-> ErrValueUnclosedQuote(origV, s.Quote)]
        ELSE
            LET commentIndex == Index(v0, s.Comment)
                v1 == IF commentIndex >= 0 /\ s.Comment # <<>>
                      THEN Slice(v0, 0, commentIndex) ELSE v0
                v2 == TrimRight(v1, SpaceTab)
            IN  IF v2 # TrimLeft(v2, SpaceTab)
                THEN [v |-> <<>>, err |-> ErrInvalidWhitespaceValuePrefix(origV)]
                ELSE [v |-> v2, err |-> Nil]

\* fixVariable leaving the comment in the value
fixVariableKeepsComment(s, v0) ==
    LET origV == v0
    IN  IF Len(v0) = 0 THEN [v |-> v0, err |-> Nil]
        ELSE IF HasPrefix(v0, s.Quote) /\ s.Quote # <<>> THEN
            IF HasSuffix(v0, s.Quote) /\ v0 # s.Quote
            THEN Unquote(v0)
            ELSE [v |-> <<>>, err |-> ErrValueUnclosedQuote(origV, s.Quote)]
        ELSE
            LET v2 == TrimRight(v0, SpaceTab)
            IN  IF v2 # TrimLeft(v2, SpaceTab)
                THEN [v |-> <<>>, err |-> ErrInvalidWhitespaceValuePrefix(origV)]
                ELSE [v |-> v2, err |-> Nil]

fixVariable(s, v0) ==
    LET origV == v0
    IN  IF Len(v0) = 0 THEN [v |-> v0, err |-> Nil]
        ELSE IF HasPrefix(v0, s.Quote) /\ s.Quote # <<>> THEN
            IF HasSuffix(v0, s.Quote) /\ v0 # s.Quote
            THEN Unquote(v0)
            ELSE [v |-> <<>>, err |-> ErrValueUnclosedQuote(origV, s.Quote)]
        ELSE
            LET commentIndex == Index(v0, s.Comment)
                v1 == IF commentIndex >= 0 /\ s.Comment # <<>>
                      THEN Slice(v0, 0, commentIndex) ELSE v0
                v2 == TrimRight(v1, SpaceTab)
            IN  IF v2 # TrimLeft(v2, SpaceTab)
                THEN [v |-> <<>>, err |-> ErrInvalidWhitespaceValuePrefix(origV)]
                ELSE [v |-> v2, err |-> Nil]

\* stripExport leaving the keyword in the line
stripExportKeepsKeyword(s, line) ==
    IF HasPrefix(line, s.Export) /\ s.Export # <<>>
    THEN TrimLeft(line, SpaceTab)
    ELSE line

\* the export step: the line without the export keyword and the whitespace
\* after it, when it starts with the keyword
stripExport(s, line) ==
    IF HasPrefix(line, s.Export) /\ s.Export # <<>>
    THEN TrimLeft(TrimPrefix(line, s.Export), SpaceTab)
    ELSE line

\* the test that ends the export step with ErrNonVariableLine
exportOnly(s, line) ==
    Len(line) = 0 \/ HasPrefix(line, s.Comment)

\* withoutEqual with the trimmed line, not the original one, in the error
withoutEqualTrimmedPayload(s, origLine, line0) ==
    LET line == TrimLeft(line0, SpaceTab)
    IN  IF Len(line) = 0 \/ (HasPrefix(line, s.Comment) /\ s.Comment # <<>>)
        THEN [name |-> <<>>, v |-> <<>>, err |-> ErrEmptyLine]
        ELSE [name |-> <<>>, v |-> <<>>, err |-> ErrNonVariableLine(line)]

\* the outcome of a line without "="
withoutEqual(s, origLine, line0) ==
    LET line == TrimLeft(line0, SpaceTab)
    IN  IF Len(line) = 0 \/ (HasPrefix(line, s.Comment) /\ s.Comment # <<>>)
        THEN [name |-> <<>>, v |-> <<>>, err |-> ErrEmptyLine]
        ELSE [name |-> <<>>, v |-> <<>>, err |-> ErrNonVariableLine(origLine)]

\* NameVar without the test for a comment in front of the name
isCommentLineMissing(s, line) == FALSE

\* the comment test without the test that Comment is not empty
isCommentLineNoGuard(s, line) ==
    HasPrefix(TrimLeft(line, SpaceTab), s.Comment)

\* the test for a comment in front of the name
isCommentLine(s, line) ==
    HasPrefix(TrimLeft(line, SpaceTab), s.Comment) /\ s.Comment # <<>>

\* withEqual returning no name when fixVariable fails
withEqualDropsName(s, line, equalIndex) ==
    LET name == TrimLeft(Slice(line, 0, equalIndex), SpaceTab)
        v    == Slice(line, equalIndex + 1, Len(line))
    IN  IF isCommentLine(s, line)
        THEN [name |-> <<>>, v |-> <<>>, err |-> ErrEmptyLine]
        ELSE IF isNameInvalid(s, name)
        THEN [name |-> <<>>, v |-> <<>>, err |-> ErrInvalidName(name)]
        ELSE LET f == fixVariable(s, v)
             IN  [name |-> IF f.err = Nil THEN name ELSE <<>>,
                  v |-> f.v, err |-> f.err]

\* the outcome of a line with "=" at equalIndex
withEqual(s, line, equalIndex) ==
    LET name == TrimLeft(Slice(line, 0, equalIndex), SpaceTab)
        v    == Slice(line, equalIndex + 1, Len(line))
    IN  IF isCommentLine(s, line)
        THEN [name |-> <<>>, v |-> <<>>, err |-> ErrEmptyLine]
        ELSE IF isNameInvalid(s, name)
        THEN [name |-> <<>>, v |-> <<>>, err |-> ErrInvalidName(name)]
        ELSE LET f == fixVariable(s, v)
             IN  [name |-> name, v |-> f.v, err |-> f.err]

NameVar(s, line0) ==
    LET origLine == line0
        line1    == TrimLeft(line0, SpaceTab)
        isExport == HasPrefix(line1, s.Export) /\ s.Export # <<>>
        line2    == stripExport(s, line1)
    IN  IF isExport /\ exportOnly(s, line2)
        THEN [name |-> <<>>, v |-> <<>>, err |-> ErrNonVariableLine(origLine)]
        ELSE LET equalIndex == Index(line2, <<"=">>)
             IN  IF equalIndex < 0
                 THEN withoutEqual(s, origLine, line2)
                 ELSE withEqual(s, line2, equalIndex)

NewSourcer ==
    [Comment |-> DefaultComment, Quote |-> DefaultQuote, Export |-> DefaultExport]


(***************************************************************************)
(* The inputs.                                                             *)
(***************************************************************************)
\* the characters line bodies are drawn from
Alphabet == {"a", " ", "\t", "#", "\"", "="}

\* the characters the inside of a quoted value is drawn from
QuotedAlphabet == Alphabet \cup {"\\"}

SeqsUpTo(S, n) == UNION {[1..k -> S] : k \in 0..n}

\* every Sourcer whose tokens are the defaults or disabled (empty)
Sourcers ==
    [Comment : {DefaultComment, <<>>},
     Quote   : {DefaultQuote, <<>>},
     Export  : {DefaultExport, <<>>}]

\* the lines given to NameVar: every string of at most MaxBody characters,
\* bare, behind the export keyword and behind a space and the export keyword,
\* and the definitions of a quoted value a="w" for every w of at most
\* MaxQuoted characters, bare, followed by at most two more characters, and
\* behind "export "
Lines ==
    LET bodies == SeqsUpTo(Alphabet, MaxBody)
        quoted == {<<"a", "=", "\"">> \o w \o <<"\"">> :
                       w \in SeqsUpTo(QuotedAlphabet, MaxQuoted)}
        tails  == SeqsUpTo(Alphabet, 2)
    IN  bodies
        \cup {DefaultExport \o b : b \in bodies}
        \cup {<<" ">> \o DefaultExport \o b : b \in bodies}
        \cup {q \o tl : q \in quoted, tl \in tails}
        \cup {DefaultExport \o <<" ">> \o q : q \in quoted}

\* the lines of the streams given to the drivers: a blank line, a comment,
\* two definitions (one with the export keyword and a quoted value), a
\* definition whose value holds a zero byte (os.Setenv rejects it), and one
\* line for each of three parse errors
SourceLines ==
    { <<>>,
      <<"#", "c">>,
      <<"a", "=", "b">>,
      DefaultExport \o <<" ", "c", "=", "\"", "d", "\"">>,
      <<"z", "=", "NUL">>,
      <<"a">>,
      <<"a", "=", " ", "b">>,
      <<"=", "a">> }

Streams == SeqsUpTo(SourceLines, MaxLines)

\* the Sourcers of the drivers: the one of NewSourcer, and one with every
\* token disabled
SourceSourcers ==
    {NewSourcer, [Comment |-> <<>>, Quote |-> <<>>, Export |-> <<>>]}

(***************************************************************************)
(* The state.                                                              *)
(***************************************************************************)
VARIABLES
    op,          \* the method called: "SourceFile", "Source", "NameVars",
                 \* "sourceVisitor" (with a visitor of the caller), "NameVar"
    s,           \* the Sourcer
    input,       \* the lines the reader delivers
    readFails,   \* whether the reader fails after delivering them
    pc,          \* where the call is
    file,        \* the handle of SourceFile: "none", "open", "closed"
    lineNumber,  \* sourceVisitor's lineNumber
    line,        \* the line scanned (the argument of NameVar)
    nv,          \* what NameVar returned: [name, v, err]
    parsed,      \* the lines passed to NameVar so far
    calls,       \* the visitor calls so far: [line, name, v, err]
    env,         \* the process environment: the set of <<name, value>>
    result,      \* NameVars: the slice of the closure, then the one returned
    srcErr,      \* what sourceVisitor returned
    ret,         \* the error the method returned
    nvExport     \* what NameVar returned for "export " + line

vars == <<op, s, input, readFails, pc, file, lineNumber, line, nv, parsed,
          calls, env, result, srcErr, ret, nvExport>>

NoResult == [name |-> <<>>, v |-> <<>>, err |-> Nil]

\* a Go slice: nil, or a list
NilSlice == [isNil |-> TRUE, items |-> <<>>]

MakeSlice(items) == [isNil |-> FALSE, items |-> items]

ErrSourcing(n, e) == [kind |-> "ErrSourcing", Line |-> n, LineError |-> e]

\* the errors of the operating system and of the caller's visitor
ErrOpen == [kind |-> "open", text |-> <<>>, quote |-> <<>>]

ErrRead == [kind |-> "read", text |-> <<>>, quote |-> <<>>]

ErrClose == [kind |-> "close", text |-> <<>>, quote |-> <<>>]

ErrSetenv == [kind |-> "setenv", text |-> <<>>, quote |-> <<>>]

ErrVisitor == [kind |-> "visitor error", text |-> <<>>, quote |-> <<>>]

\* os.Setenv rejects an empty key, a key holding "=" or a zero byte, and a
\* value holding a zero byte
SetenvFails(name, v) ==
    \/ Len(name) = 0
    \/ ContainsAny(name, {"=", "NUL"})
    \/ ContainsAny(v, {"NUL"})

Setenv(e, name, v) == {p \in e : p[1] # name} \cup {<<name, v>>}

InitCommon ==
    /\ pc = "start"
    /\ file = "none"
    /\ lineNumber = 0
    /\ line = <<>>
    /\ nv = NoResult
    /\ parsed = <<>>
    /\ calls = <<>>
    /\ env = {}
    /\ result = NilSlice
    /\ srcErr = Nil
    /\ ret = Nil
    /\ nvExport = NoResult

Init ==
    /\ op \in {"SourceFile", "Source", "NameVars", "sourceVisitor"}
    /\ s \in SourceSourcers
    /\ input \in Streams
    /\ readFails \in BOOLEAN
    /\ InitCommon

(***************************************************************************)
(* SourceFile: os.Open.                                                    *)
(***************************************************************************)
OpenFile ==
    /\ pc = "start" /\ op = "SourceFile"
    /\ \E ok \in BOOLEAN :
        IF ok THEN /\ file' = "open"
                   /\ pc' = "scan"
                   /\ ret' = ret
              ELSE /\ file' = file
                   /\ pc' = "done"
                   /\ ret' = ErrOpen
    /\ UNCHANGED <<op, s, input, readFails, lineNumber, line, nv, parsed,
                   calls, env, result, srcErr, nvExport>>

\* Source and sourceVisitor start reading at once; NameVars first makes the
\* empty slice its closure appends to
Enter ==
    /\ pc = "start" /\ op \in {"Source", "NameVars", "sourceVisitor"}
    /\ result' = IF op = "NameVars" THEN MakeSlice(<<>>) ELSE result
    /\ pc' = "scan"
    /\ UNCHANGED <<op, s, input, readFails, file, lineNumber, line, nv,
                   parsed, calls, env, srcErr, ret, nvExport>>

(***************************************************************************)
(* sourceVisitor.                                                          *)
(***************************************************************************)
\* scanner.Scan() is true: the next line, lineNumber++
Scan ==
    /\ pc = "scan"
    /\ lineNumber < Len(input)
    /\ line' = input[lineNumber + 1]
    /\ lineNumber' = lineNumber + 1
    /\ pc' = "parse"
    /\ UNCHANGED <<op, s, input, readFails, file, nv, parsed, calls, env,
                   result, srcErr, ret, nvExport>>

\* ScanEnd reporting the read error as the error of the line last read
ScanEndWrapsReadError ==
    /\ pc = "scan"
    /\ lineNumber >= Len(input)
    /\ srcErr' = IF readFails THEN ErrSourcing(lineNumber, ErrRead) ELSE Nil
    /\ pc' = "returned"
    /\ UNCHANGED <<op, s, input, readFails, file, lineNumber, line, nv,
                   parsed, calls, env, result, ret, nvExport>>

\* scanner.Scan() is false: return scanner.Err()
ScanEnd ==
    /\ pc = "scan"
    /\ lineNumber >= Len(input)
    /\ srcErr' = IF readFails THEN ErrRead ELSE Nil
    /\ pc' = "returned"
    /\ UNCHANGED <<op, s, input, readFails, file, lineNumber, line, nv,
                   parsed, calls, env, result, ret, nvExport>>

\* Parse wrapping the error with the line number before its increment
ParseLineBeforeIncrement ==
    /\ pc = "parse"
    /\ LET r == NameVar(s, line)
       IN  /\ nv' = r
           /\ parsed' = Append(parsed, line)
           /\ IF r.err = ErrEmptyLine
              THEN pc' = "scan" /\ srcErr' = srcErr
              ELSE IF r.err # Nil
              THEN /\ pc' = "returned"
                   /\ srcErr' = ErrSourcing(lineNumber - 1, r.err)
              ELSE pc' = "visit" /\ srcErr' = srcErr
    /\ UNCHANGED <<op, s, input, readFails, file, lineNumber, line, calls,
                   env, result, ret, nvExport>>

\* Parse dropping the sentinel without going on to the next line
ParseVisitsEmptyLines ==
    /\ pc = "parse"
    /\ LET r == NameVar(s, line)
       IN  /\ nv' = r
           /\ parsed' = Append(parsed, line)
           /\ IF r.err = ErrEmptyLine
              THEN pc' = "visit" /\ srcErr' = srcErr
              ELSE IF r.err # Nil
              THEN pc' = "returned" /\ srcErr' = ErrSourcing(lineNumber, r.err)
              ELSE pc' = "visit" /\ srcErr' = srcErr
    /\ UNCHANGED <<op, s, input, readFails, file, lineNumber, line, calls,
                   env, result, ret, nvExport>>

\* Parse without the test of the sentinel: ErrEmptyLine is reported as any
\* other error of NameVar
ParseReportsEmptyLines ==
    /\ pc = "parse"
    /\ LET r == NameVar(s, line)
       IN  /\ nv' = r
           /\ parsed' = Append(parsed, line)
           /\ IF r.err # Nil
              THEN pc' = "returned" /\ srcErr' = ErrSourcing(lineNumber, r.err)
              ELSE pc' = "visit" /\ srcErr' = srcErr
    /\ UNCHANGED <<op, s, input, readFails, file, lineNumber, line, calls,
                   env, result, ret, nvExport>>

\* name, v, err := s.NameVar(line) and the two tests of err
Parse ==
    /\ pc = "parse"
    /\ LET r == NameVar(s, line)
       IN  /\ nv' = r
           /\ parsed' = Append(parsed, line)
           /\ IF r.err = ErrEmptyLine
              THEN pc' = "scan" /\ srcErr' = srcErr
              ELSE IF r.err # Nil
              THEN pc' = "returned" /\ srcErr' = ErrSourcing(lineNumber, r.err)
              ELSE pc' = "visit" /\ srcErr' = srcErr
    /\ UNCHANGED <<op, s, input, readFails, file, lineNumber, line, calls,
                   env, result, ret, nvExport>>

\* what visit(name, v) returns and does; the visitor of a caller of
\* sourceVisitor may fail on any call
VisitWith(e) ==
    /\ calls' = Append(calls, [line |-> lineNumber, name |-> nv.name,
                               v |-> nv.v, err |-> e])
    /\ env' = IF op \in {"Source", "SourceFile"} /\ e = Nil
              THEN Setenv(env, nv.name, nv.v) ELSE env
    /\ result' = IF op = "NameVars"
                 THEN MakeSlice(Append(result.items, <<nv.name, nv.v>>))
                 ELSE result
    /\ IF e # Nil
       THEN pc' = "returned" /\ srcErr' = ErrSourcing(lineNumber, e)
       ELSE pc' = "scan" /\ srcErr' = srcErr

Visit ==
    /\ pc = "visit"
    /\ \E e \in {Nil, ErrSetenv, ErrVisitor} :
        /\ op \in {"Source", "SourceFile"} =>
               e = IF SetenvFails(nv.name, nv.v) THEN ErrSetenv ELSE Nil
        /\ op = "NameVars" => e = Nil
        /\ op = "sourceVisitor" => e \in {Nil, ErrVisitor}
        /\ VisitWith(e)
    /\ UNCHANGED <<op, s, input, readFails, file, lineNumber, line, nv,
                   parsed, ret, nvExport>>

(***************************************************************************)
(* The callers of sourceVisitor.                                           *)
(***************************************************************************)
\* Source returns what sourceVisitor returned (as does a direct call)
SourceReturn ==
    /\ pc = "returned" /\ op \in {"Source", "sourceVisitor"}
    /\ ret' = srcErr
    /\ pc' = "done"
    /\ UNCHANGED <<op, s, input, readFails, file, lineNumber, line, nv,
                   parsed, calls, env, result, srcErr, nvExport>>

\* NameVarsReturn returning the pairs collected so far with the error
NameVarsReturnKeepsPairs ==
    /\ pc = "returned" /\ op = "NameVars"
    /\ result' = result /\ ret' = srcErr
    /\ pc' = "done"
    /\ UNCHANGED <<op, s, input, readFails, file, lineNumber, line, nv,
                   parsed, calls, env, srcErr, nvExport>>

NameVarsReturn ==
    /\ pc = "returned" /\ op = "NameVars"
    /\ IF srcErr # Nil
       THEN result' = NilSlice /\ ret' = srcErr
       ELSE result' = result /\ ret' = Nil
    /\ pc' = "done"
    /\ UNCHANGED <<op, s, input, readFails, file, lineNumber, line, nv,
                   parsed, calls, env, srcErr, nvExport>>

\* if err := s.Source(file); err != nil { return err }
SourceFileError ==
    /\ pc = "returned" /\ op = "SourceFile"
    /\ srcErr # Nil
    /\ ret' = srcErr
    /\ pc' = "done"
    /\ UNCHANGED <<op, s, input, readFails, file, lineNumber, line, nv,
                   parsed, calls, env, result, srcErr, nvExport>>

\* return file.Close()
SourceFileClose ==
    /\ pc = "returned" /\ op = "SourceFile"
    /\ srcErr = Nil
    /\ file' = "closed"
    /\ \E e \in {Nil, ErrClose} : ret' = e
    /\ pc' = "done"
    /\ UNCHANGED <<op, s, input, readFails, lineNumber, line, nv, parsed,
                   calls, env, result, srcErr, nvExport>>

Next ==
    \/ OpenFile
    \/ Enter
    \/ Scan
    \/ ScanEnd
    \/ Parse
    \/ Visit
    \/ SourceReturn
    \/ NameVarsReturn
    \/ SourceFileError
    \/ SourceFileClose

Spec == Init /\ [][Next]_vars

(***************************************************************************)
(* The line parser on its own: NameVar applied to one line, then to the    *)
(* same line behind "export ".                                             *)
(***************************************************************************)
InitNameVar ==
    /\ op = "NameVar"
    /\ s \in Sourcers
    /\ input \in {<<l>> : l \in Lines}
    /\ readFails = FALSE
    /\ InitCommon

CallNameVar ==
    /\ pc = "start" /\ op = "NameVar"
    /\ line' = input[1]
    /\ nv' = NameVar(s, input[1])
    /\ pc' = "parsed"
    /\ UNCHANGED <<op, s, input, readFails, file, lineNumber, parsed, calls,
                   env, result, srcErr, ret, nvExport>>

CallNameVarExport ==
    /\ pc = "parsed" /\ op = "NameVar"
    /\ nvExport' = NameVar(s, DefaultExport \o <<" ">> \o line)
    /\ pc' = "done"
    /\ UNCHANGED <<op, s, input, readFails, file, lineNumber, line, nv,
                   parsed, calls, env, result, srcErr, ret>>

NextNameVar ==
    \/ CallNameVar
    \/ CallNameVarExport

SpecNameVar == InitNameVar /\ [][NextNameVar]_vars

(***************************************************************************)
(* What the claims about the drivers are stated with.                      *)
(***************************************************************************)
\* sourceVisitor has been called and has returned (SourceFile does not call
\* it when os.Open fails)
Returned ==
    /\ op # "NameVar"
    /\ pc \in {"returned", "done"}
    /\ ~(op = "SourceFile" /\ file = "none")

IsEntry(r) == r.err = Nil

\* the <<name, value>> of the lines of a stream that are definitions, in order
RECURSIVE EntryPairs(_, _)
EntryPairs(sr, lines) ==
    IF lines = <<>> THEN <<>>
    ELSE LET r == NameVar(sr, Head(lines))
         IN  (IF IsEntry(r) THEN <<<<r.name, r.v>>>> ELSE <<>>)
             \o EntryPairs(sr, Tail(lines))

\* the <<name, value>> of the visitor calls made, in order
VisitedPairs == [i \in 1..Len(calls) |-> <<calls[i].name, calls[i].v>>]

\* line k fails to parse: NameVar returns an error that is not the sentinel
ParseFails(k) == NameVar(s, input[k]).err \notin {Nil, ErrEmptyLine}

\* the error of the visitor on line k (Nil when it returns none): os.Setenv
\* and the closure of NameVars are functions of the pair, the visitor of a
\* caller is known by the calls it answered
VisitorError(k) ==
    LET r == NameVar(s, input[k])
    IN  IF op \in {"Source", "SourceFile"}
        THEN IF IsEntry(r) /\ SetenvFails(r.name, r.v) THEN ErrSetenv ELSE Nil
        ELSE IF op = "NameVars" THEN Nil
        ELSE IF \E i \in 1..Len(calls) : calls[i].line = k /\ calls[i].err # Nil
             THEN (CHOOSE c \in {calls[i] : i \in 1..Len(calls)} :
                       c.line = k /\ c.err # Nil).err
             ELSE Nil

LineFails(k) == ParseFails(k) \/ VisitorError(k) # Nil

LineError(k) ==
    IF ParseFails(k) THEN NameVar(s, input[k]).err ELSE VisitorError(k)

FirstFailing(k) ==
    /\ k \in 1..Len(input)
    /\ LineFails(k)
    /\ \A j \in 1..(k - 1) : ~LineFails(j)

(***************************************************************************)
(* C1.  Once os.Open succeeded, the handle SourceFile opened is closed     *)
(* when SourceFile has returned, whatever Source returned.                 *)
(* The code returns the error of Source without closing the file.          *)
(***************************************************************************)
C1_HandleClosedOnReturn ==
    (op = "SourceFile" /\ pc = "done" /\ file # "none") => file = "closed"

(***************************************************************************)
(* C2.  If line k is the first line on which NameVar returns an error that *)
(* is not the sentinel, or on which the visitor returns an error, then     *)
(* sourceVisitor (and so Source and NameVars) returns                      *)
(* ErrSourcing{Line: k, LineError: that error}, the lines passed to        *)
(* NameVar are exactly lines 1..k, and no line after k is visited.         *)
(***************************************************************************)
C2_FirstErrorStops ==
    Returned =>
        \A k \in 1..Len(input) :
            FirstFailing(k) =>
                /\ srcErr = ErrSourcing(k, LineError(k))
                /\ parsed = SubSeq(input, 1, k)
                /\ \A i \in 1..Len(calls) : calls[i].line <= k
                /\ (pc = "done" => ret = srcErr)
                /\ lineNumber = k

\* a stream of three lines whose second line is the first to fail has been
\* sourced
C2_Witness ==
    /\ Returned /\ pc = "done"
    /\ Len(input) = 3
    /\ FirstFailing(2)
    /\ ret.kind = "ErrSourcing"

(***************************************************************************)
(* C3.  The visitor calls made by sourceVisitor are exactly the            *)
(* (name, value) pairs of the definition lines, in input order and one     *)
(* call each, over the lines up to the line sourceVisitor stopped on (all  *)
(* lines when it returns no ErrSourcing): a line NameVar skips or rejects  *)
(* causes no call, and no definition line is left out or visited twice.    *)
(***************************************************************************)
C3_VisitsAreTheEntries ==
    Returned =>
        LET stop == IF srcErr.kind = "ErrSourcing" THEN srcErr.Line
                    ELSE Len(input)
        IN  VisitedPairs = EntryPairs(s, SubSeq(input, 1, stop))

\* a stream with a skipped line between two definitions has been sourced
\* without error
C3_Witness ==
    /\ Returned /\ pc = "done"
    /\ ret = Nil
    /\ Len(calls) = 2
    /\ Len(input) = 3
    /\ NameVar(s, input[2]).err = ErrEmptyLine

(***************************************************************************)
(* C4.  NameVars returns the list of the (name, value) pairs of all        *)
(* definition lines, in order, non-nil even when empty, with a nil error;  *)
(* or, when a line fails (or the read fails), a nil slice and a non-nil    *)
(* error: the pairs collected from earlier lines are discarded.            *)
(***************************************************************************)
C4_NameVarsAllOrNothing ==
    (op = "NameVars" /\ pc = "done") =>
        IF readFails \/ \E k \in 1..Len(input) : ParseFails(k)
        THEN result = NilSlice /\ ret # Nil
        ELSE result = MakeSlice(EntryPairs(s, input)) /\ ret = Nil

\* NameVars has failed on a line after it collected two pairs
C4_Witness ==
    /\ op = "NameVars" /\ pc = "done"
    /\ Len(calls) = 2
    /\ ret.kind = "ErrSourcing"
    /\ result = NilSlice

(***************************************************************************)
(* What the claims about the line parser are stated with.                  *)
(***************************************************************************)
\* NameVar has been applied to line
Parsed == op = "NameVar" /\ pc \in {"parsed", "done"}

Skip == [name |-> <<>>, v |-> <<>>, err |-> ErrEmptyLine]

\* the splits name + "=" + value of a line
Splits(l) ==
    {[name |-> SubSeq(l, 1, i - 1), value |-> SubSeq(l, i + 1, Len(l))] :
         i \in {j \in 1..Len(l) : l[j] = "="}}

\* a name that is non-empty and holds no whitespace, comment or quote token
RoundTripName(sr, name) ==
    /\ name # <<>>
    /\ ~ContainsAny(name, SpaceTab)
    /\ ~Contains(name, sr.Comment)
    /\ ~Contains(name, sr.Quote)

\* an unquoted value without leading whitespace and without comment token
RoundTripValue(sr, value) ==
    /\ ~HasPrefix(value, sr.Quote)
    /\ value = TrimLeft(value, SpaceTab)
    /\ ~Contains(value, sr.Comment)

(***************************************************************************)
(* C5, as claimed.  With the default tokens, for every name that is        *)
(* non-empty and holds no whitespace, comment token or quote token, and    *)
(* every unquoted value without leading whitespace and without the comment *)
(* token, NameVar(name + "=" + value) returns (name, value, nil).  (Read   *)
(* in its favour: the name is the text before the first "=".)              *)
(***************************************************************************)
C5_RoundTripAsClaimed ==
    (Parsed /\ s = NewSourcer) =>
        \A p \in Splits(line) :
            ( /\ RoundTripName(s, p.name)
              /\ ~Contains(p.name, <<"=">>)
              /\ RoundTripValue(s, p.value) ) =>
                nv = [name |-> p.name, v |-> p.value, err |-> Nil]

(***************************************************************************)
(* C5, amended.  The same, for the names that also hold no "=" and do not  *)
(* start with the export token, and the values that also have no trailing  *)
(* space or tab.                                                           *)
(***************************************************************************)
C5_RoundTrip ==
    (Parsed /\ s = NewSourcer) =>
        \A p \in Splits(line) :
            ( /\ RoundTripName(s, p.name)
              /\ ~Contains(p.name, <<"=">>)
              /\ ~HasPrefix(p.name, s.Export)
              /\ RoundTripValue(s, p.value)
              /\ p.value = TrimRight(p.value, SpaceTab) ) =>
                nv = [name |-> p.name, v |-> p.value, err |-> Nil]

\* a line name=value of such a name and such a value of two characters or
\* more has been parsed
C5_Witness ==
    /\ Parsed /\ s = NewSourcer
    /\ \E p \in Splits(line) :
        /\ RoundTripName(s, p.name)
        /\ ~Contains(p.name, <<"=">>)
        /\ ~HasPrefix(p.name, s.Export)
        /\ RoundTripValue(s, p.value)
        /\ p.value = TrimRight(p.value, SpaceTab)
        /\ Len(p.value) >= 2

(***************************************************************************)
(* C6, as claimed.  With the default tokens, for every line D that NameVar *)
(* parses to an entry (name, value), NameVar("export " + D) returns the    *)
(* same entry.                                                             *)
(***************************************************************************)
C6_ExportTransparentAsClaimed ==
    (op = "NameVar" /\ pc = "done" /\ s = NewSourcer /\ IsEntry(nv)) =>
        nvExport = nv

(***************************************************************************)
(* C6, amended.  With the default export token and a non-empty comment     *)
(* token, for every line D that NameVar parses to an entry and that does   *)
(* not itself start (after leading space/tab) with the export token,       *)
(* NameVar("export " + D) returns the same entry.                          *)
(***************************************************************************)
C6_ExportTransparent ==
    ( /\ op = "NameVar" /\ pc = "done"
      /\ s.Export = DefaultExport /\ s.Comment # <<>>
      /\ IsEntry(nv)
      /\ ~HasPrefix(TrimLeft(line, SpaceTab), DefaultExport) ) =>
        nvExport = nv

\* an entry with a non-empty value, of a line without the export keyword,
\* has been parsed again behind "export "
C6_Witness ==
    /\ op = "NameVar" /\ pc = "done"
    /\ s.Export = DefaultExport /\ s.Comment # <<>>
    /\ IsEntry(nv)
    /\ ~HasPrefix(TrimLeft(line, SpaceTab), DefaultExport)
    /\ nv.v # <<>>

(***************************************************************************)
(* C7.  Every name NameVar returns with a nil error is non-empty, holds no *)
(* space or tab, and holds neither the comment token nor the quote token   *)
(* (each when non-empty).                                                  *)
(* isNameInvalid does not look for the quote token.                        *)
(***************************************************************************)
C7_NameWellFormed ==
    (Parsed /\ IsEntry(nv)) =>
        /\ nv.name # <<>>
        /\ ~ContainsAny(nv.name, SpaceTab)
        /\ (s.Comment # <<>> => ~Contains(nv.name, s.Comment))
        /\ (s.Quote # <<>> => ~Contains(nv.name, s.Quote))

(***************************************************************************)
(* C8.  With a non-empty comment token, every line whose first character   *)
(* after leading space/tab starts the comment token is skipped: NameVar    *)
(* returns ErrEmptyLine with empty name and value, with or without "=" in  *)
(* the line.                                                               *)
(***************************************************************************)
C8_CommentLineIsSkipped ==
    ( /\ Parsed
      /\ s.Comment # <<>>
      /\ HasPrefix(TrimLeft(line, SpaceTab), s.Comment) ) =>
        nv = Skip

\* a line " #...=..." has been parsed
C8_Witness ==
    /\ Parsed
    /\ s.Comment # <<>>
    /\ HasPrefix(line, <<" ">> \o s.Comment)
    /\ Contains(line, <<"=">>)
    /\ Len(line) >= 4

(***************************************************************************)
(* C9.  For every line without "=", with any of the tokens disabled or     *)
(* not: NameVar skips the line iff the line, left-trimmed, is empty or     *)
(* starts with the non-empty comment token, and otherwise returns          *)
(* ErrNonVariableLine of the line exactly as given; name and value are     *)
(* empty in both cases.                                                    *)
(***************************************************************************)
C9_LineWithoutEqual ==
    (Parsed /\ ~Contains(line, <<"=">>)) =>
        LET trimmed == TrimLeft(line, SpaceTab)
        IN  IF trimmed = <<>>
               \/ (s.Comment # <<>> /\ HasPrefix(trimmed, s.Comment))
            THEN nv = Skip
            ELSE nv = [name |-> <<>>, v |-> <<>>,
                       err |-> ErrNonVariableLine(line)]

\* a line of a space, the export keyword and more, without "=", has been
\* rejected by a Sourcer without export keyword
C9_Witness ==
    /\ Parsed
    /\ ~Contains(line, <<"=">>)
    /\ s.Export = <<>>
    /\ HasPrefix(line, <<" ">> \o DefaultExport)
    /\ Len(line) > Len(DefaultExport) + 1
    /\ nv.err.kind = "ErrNonVariableLine"

(***************************************************************************)
(* C10.  When the left-trimmed line starts with the non-empty export       *)
(* token, NameVar returns ErrNonVariableLine(line) from the export step    *)
(* only if the rest (token stripped, left-trimmed) is empty, or the        *)
(* comment token is non-empty and the rest starts with it; in every other  *)
(* case the outcome is the one of the rest parsed without export keyword   *)
(* (an ErrNonVariableLine carrying the original line).                     *)
(* The code tests HasPrefix(rest, Comment) without Comment != "", which is *)
(* true of every rest when the comment token is empty.                     *)
(***************************************************************************)
C10_ExportStepAsClaimed ==
    ( /\ Parsed
      /\ s.Export # <<>>
      /\ HasPrefix(TrimLeft(line, SpaceTab), s.Export) ) =>
        LET rest == TrimLeft(TrimPrefix(TrimLeft(line, SpaceTab), s.Export),
                             SpaceTab)
            r    == NameVar([s EXCEPT !.Export = <<>>], rest)
        IN  IF rest = <<>> \/ (s.Comment # <<>> /\ HasPrefix(rest, s.Comment))
            THEN nv = [name |-> <<>>, v |-> <<>>,
                       err |-> ErrNonVariableLine(line)]
            ELSE IF r.err.kind = "ErrNonVariableLine"
            THEN nv = [r EXCEPT !.err = ErrNonVariableLine(line)]
            ELSE nv = r

(***************************************************************************)
(* More of what the claims about the line parser are stated with.          *)
(***************************************************************************)
\* the line left-trimmed, and without the non-empty export token and the
\* space/tab after it when it starts with the token
AfterExport(sr, l) ==
    LET t == TrimLeft(l, SpaceTab)
    IN  IF sr.Export # <<>> /\ HasPrefix(t, sr.Export)
        THEN TrimLeft(TrimPrefix(t, sr.Export), SpaceTab)
        ELSE t

\* the export step ends the parse of the line (the line starts with the
\* export token and what NameVar tests of the rest holds)
EndsAtExport(sr, l) ==
    /\ sr.Export # <<>>
    /\ HasPrefix(TrimLeft(l, SpaceTab), sr.Export)
    /\ (AfterExport(sr, l) = <<>> \/ HasPrefix(AfterExport(sr, l), sr.Comment))

\* the line reaches the split on "=" and is not a comment line
ReachesSplit(sr, l) ==
    /\ ~EndsAtExport(sr, l)
    /\ \E j \in 1..Len(AfterExport(sr, l)) : AfterExport(sr, l)[j] = "="
    /\ ~(sr.Comment # <<>> /\ HasPrefix(AfterExport(sr, l), sr.Comment))

\* position (1-based) of the first "=" of a text that has one
FirstEqual(t) == MinOf({j \in 1..Len(t) : t[j] = "="})

\* the text before the first "=", left-trimmed
NamePart(sr, l) ==
    LET t == AfterExport(sr, l)
    IN  TrimLeft(SubSeq(t, 1, FirstEqual(t) - 1), SpaceTab)

\* the text after the first "="
RawValue(sr, l) ==
    LET t == AfterExport(sr, l)
    IN  SubSeq(t, FirstEqual(t) + 1, Len(t))

ReachesValue(sr, l) ==
    /\ ReachesSplit(sr, l)
    /\ NamePart(sr, l) # <<>>
    /\ ~ContainsAny(NamePart(sr, l), SpaceTab)
    /\ ~(sr.Comment # <<>> /\ Contains(NamePart(sr, l), sr.Comment))

\* the raw value starts with the non-empty quote token
StartsQuoted(sr, raw) == sr.Quote # <<>> /\ HasPrefix(raw, sr.Quote)

\* the reference of the unquoted path: the text up to the first comment token
\* (all of it when there is none or the token is empty) ...
RECURSIVE RefTruncate(_, _)
RefTruncate(sr, t) ==
    IF t = <<>> THEN <<>>
    ELSE IF sr.Comment # <<>> /\ HasPrefix(t, sr.Comment) THEN <<>>
    ELSE <<Head(t)>> \o RefTruncate(sr, Tail(t))

\* ... without its trailing spaces and tabs
RECURSIVE RefRightTrim(_)
RefRightTrim(t) ==
    IF t = <<>> THEN <<>>
    ELSE IF t[Len(t)] \in {" ", "\t"} THEN RefRightTrim(SubSeq(t, 1, Len(t) - 1))
    ELSE t

RefUnquoted(sr, raw) == RefRightTrim(RefTruncate(sr, raw))

(***************************************************************************)
(* C12.  For a raw value that does not start with the non-empty quote      *)
(* token, the outcome is decided by the reference text `raw truncated at   *)
(* the first comment token (when the token is non-empty), then right-      *)
(* trimmed of space/tab': if the text begins with a space or tab the       *)
(* outcome is ErrInvalidWhitespaceValuePrefix of the raw value as given    *)
(* (and an empty value), otherwise the text is the value, internal         *)
(* whitespace and quote tokens kept.                                       *)
(***************************************************************************)
C12_UnquotedValue ==
    ( /\ Parsed
      /\ ReachesValue(s, line)
      /\ ~StartsQuoted(s, RawValue(s, line)) ) =>
        LET raw == RawValue(s, line)
            ref == RefUnquoted(s, raw)
        IN  IF ref # <<>> /\ ref[1] \in {" ", "\t"}
            THEN /\ nv.v = <<>>
                 /\ nv.err = ErrInvalidWhitespaceValuePrefix(raw)
            ELSE /\ nv.v = ref
                 /\ nv.err = Nil

\* a value followed by a comment has been normalised by the default Sourcer
C12_Witness ==
    /\ Parsed
    /\ ReachesValue(s, line)
    /\ ~StartsQuoted(s, RawValue(s, line))
    /\ s = NewSourcer
    /\ Contains(RawValue(s, line), s.Comment)
    /\ nv.v # <<>>
    /\ nv.err = Nil

(***************************************************************************)
(* C13.  For a raw value that starts with the non-empty quote token: if it *)
(* also ends with the token and is not the token alone, the outcome is the *)
(* result (value or failure) of Unquote applied to the whole raw value,    *)
(* both delimiters included; otherwise (no quote at the very end, or the   *)
(* bare token) the outcome is ErrValueUnclosedQuote{raw value, token} with *)
(* an empty value.  Nothing is truncated or trimmed on this branch.        *)
(***************************************************************************)
C13_QuotedValue ==
    ( /\ Parsed
      /\ ReachesValue(s, line)
      /\ StartsQuoted(s, RawValue(s, line)) ) =>
        LET raw == RawValue(s, line)
            q   == s.Quote
        IN  IF Len(raw) > Len(q)
               /\ SubSeq(raw, Len(raw) - Len(q) + 1, Len(raw)) = q
            THEN /\ nv.v = Unquote(raw).v
                 /\ nv.err = Unquote(raw).err
            ELSE /\ nv.v = <<>>
                 /\ nv.err = ErrValueUnclosedQuote(raw, q)

\* a quoted value holding the comment token has been unquoted, the token
\* kept
C13_Witness ==
    /\ Parsed
    /\ ReachesValue(s, line)
    /\ StartsQuoted(s, RawValue(s, line))
    /\ s.Comment # <<>>
    /\ nv.err = Nil
    /\ Contains(nv.v, s.Comment)

\* the first character of the line after leading space/tab is "#", the
\* default comment token
StartsWithHash(l) == HasPrefix(TrimLeft(l, SpaceTab), DefaultComment)

(***************************************************************************)
(* C14, as claimed.  With the comment token disabled, every line whose     *)
(* first character after leading space/tab is "#" parses as                *)
(* ErrNonVariableLine when it has no "=", and as an entry whose name       *)
(* starts with "#" when it has one; no such line is skipped.               *)
(***************************************************************************)
C14_HashLineAsClaimed ==
    (Parsed /\ s.Comment = <<>> /\ StartsWithHash(line)) =>
        IF ~Contains(line, <<"=">>)
        THEN nv.err = ErrNonVariableLine(line)
        ELSE nv.err = Nil /\ HasPrefix(nv.name, DefaultComment)

(***************************************************************************)
(* C14, amended.  With the comment token disabled, no line whose first     *)
(* character after leading space/tab is "#" is skipped: without "=" it is  *)
(* ErrNonVariableLine of the line; with "=" it is parsed as any definition *)
(* line, its name being the text from "#" to the first "=": an entry with  *)
(* that name, or ErrInvalidName of that name when it holds a space or tab, *)
(* or that name with the error of value normalisation.                     *)
(***************************************************************************)
C14_HashLine ==
    (Parsed /\ s.Comment = <<>> /\ StartsWithHash(line)) =>
        LET t == TrimLeft(line, SpaceTab)
        IN  IF \A j \in 1..Len(t) : t[j] # "="
            THEN nv = [name |-> <<>>, v |-> <<>>,
                       err |-> ErrNonVariableLine(line)]
            ELSE LET name == SubSeq(t, 1, FirstEqual(t) - 1)
                 IN  /\ name[1] = "#"
                     /\ IF \E i \in 1..Len(name) : name[i] \in {" ", "\t"}
                        THEN nv = [name |-> <<>>, v |-> <<>>,
                                   err |-> ErrInvalidName(name)]
                        ELSE /\ nv.name = name
                             /\ nv.err.kind \in
                                    {"nil", "ErrInvalidWhitespaceValuePrefix",
                                     "ErrValueUnclosedQuote", "ErrSyntax"}

\* a line "#...=..." has been parsed to an entry by a Sourcer without
\* comment token
C14_Witness ==
    /\ Parsed /\ s.Comment = <<>> /\ StartsWithHash(line)
    /\ nv.err = Nil
    /\ Len(nv.name) >= 2
    /\ nv.v # <<>>

(***************************************************************************)
(* C15.  With the quote token disabled, a raw value that begins with a     *)
(* double quote, closed or not, is handled by the unquoted path: the       *)
(* outcome is never an error (so neither ErrValueUnclosedQuote nor a       *)
(* failure of Unquote), and the value is the raw text up to the first      *)
(* non-empty comment token, right-trimmed, with its double quotes and      *)
(* backslash sequences as written.                                         *)
(***************************************************************************)
C15_QuoteDisabled ==
    ( /\ Parsed
      /\ s.Quote = <<>>
      /\ ReachesValue(s, line)
      /\ HasPrefix(RawValue(s, line), DefaultQuote) ) =>
        LET raw == RawValue(s, line)
        IN  /\ nv.err = Nil
            /\ nv.v = RefUnquoted(s, raw)
            /\ nv.v[1] = "\""
            /\ s.Comment = <<>> => nv.v = RefRightTrim(raw)

\* a closed quoted value holding a backslash sequence has been returned as
\* written by a Sourcer without quote token
C15_Witness ==
    /\ Parsed
    /\ s.Quote = <<>>
    /\ ReachesValue(s, line)
    /\ Len(nv.v) >= 4
    /\ nv.v[1] = "\"" /\ nv.v[2] = "\\" /\ nv.v[Len(nv.v)] = "\""
    /\ nv.err = Nil

(***************************************************************************)
(* C16.  When the read of the stream fails after lines that neither fail   *)
(* to parse nor fail in the visitor, sourceVisitor returns the read error  *)
(* itself, not an ErrSourcing and with no line number, and its callers     *)
(* return the same; the definitions of the lines read before the failure   *)
(* have all been visited, in order, and every line read has been parsed.   *)
(***************************************************************************)
C16_ReadErrorUnwrapped ==
    ( /\ Returned
      /\ readFails
      /\ \A k \in 1..Len(input) : ~LineFails(k) ) =>
        /\ srcErr = ErrRead
        /\ srcErr.kind # "ErrSourcing"
        /\ "Line" \notin DOMAIN srcErr
        /\ parsed = input
        /\ VisitedPairs = EntryPairs(s, input)
        /\ \A i \in 1..Len(calls) : calls[i].err = Nil
        /\ (pc = "done" => ret = ErrRead)

\* a read failure after two visited definitions has been returned
C16_Witness ==
    /\ Returned /\ pc = "done"
    /\ readFails
    /\ ret = ErrRead
    /\ Len(calls) = 2
    /\ Len(input) = 3

\* NameVar returns the sentinel for line k of the stream
IsSkipLine(k) == NameVar(s, input[k]).err = ErrEmptyLine

(***************************************************************************)
(* C17.  ErrEmptyLine never leaves the driver: neither what sourceVisitor  *)
(* returns nor what Source, NameVars and SourceFile return is ErrEmptyLine *)
(* or an ErrSourcing whose LineError is ErrEmptyLine.  A line for which    *)
(* NameVar returns ErrEmptyLine causes no visitor call, is not the line an *)
(* ErrSourcing names, and when it is not the last line the next line is    *)
(* passed to NameVar before the driver returns.                            *)
(***************************************************************************)
C17_SentinelStaysInside ==
    op # "NameVar" =>
        /\ \A e \in {ret, srcErr} :
            /\ e # ErrEmptyLine
            /\ e.kind = "ErrSourcing" => e.LineError # ErrEmptyLine
        /\ \A k \in 1..Len(parsed) :
            IsSkipLine(k) =>
                /\ \A i \in 1..Len(calls) : calls[i].line # k
                /\ srcErr.kind = "ErrSourcing" => srcErr.Line # k
                /\ (Returned /\ k < Len(input)) => Len(parsed) > k

\* a stream whose first two lines are skipped has been read up to its third
\* line, which failed
C17_Witness ==
    /\ Returned /\ pc = "done"
    /\ Len(input) = 3
    /\ IsSkipLine(1) /\ IsSkipLine(2)
    /\ input[1] # input[2]
    /\ ret.kind = "ErrSourcing"
    /\ ret.Line = 3

\* the errors of value normalisation
ValueErrorKinds ==
    {"ErrInvalidWhitespaceValuePrefix", "ErrValueUnclosedQuote", "ErrSyntax"}

(***************************************************************************)
(* C18.  When NameVar returns an error of value normalisation              *)
(* (ErrInvalidWhitespaceValuePrefix, ErrValueUnclosedQuote, or the error   *)
(* of Unquote) it returns with it the name of the line, which is not empty *)
(* and holds no space or tab, and an empty value; with every other error   *)
(* (ErrEmptyLine, ErrNonVariableLine, ErrInvalidName) the name and the     *)
(* value returned are both empty.                                          *)
(***************************************************************************)
C18_FailureShape ==
    (Parsed /\ nv.err # Nil) =>
        IF nv.err.kind \in ValueErrorKinds
        THEN /\ ReachesValue(s, line)
             /\ nv.name = NamePart(s, line)
             /\ nv.name # <<>>
             /\ \A i \in 1..Len(nv.name) : nv.name[i] \notin {" ", "\t"}
             /\ nv.v = <<>>
        ELSE /\ nv.err.kind \in
                    {"ErrEmptyLine", "ErrNonVariableLine", "ErrInvalidName"}
             /\ nv.name = <<>>
             /\ nv.v = <<>>

\* Unquote has failed on the value of a definition behind "export"
C18_Witness ==
    /\ Parsed
    /\ nv.err = ErrSyntax
    /\ nv.name # <<>>
    /\ s = NewSourcer
    /\ HasPrefix(line, DefaultExport)

(***************************************************************************)
(* C19.  A value NameVar returns with a nil error for a raw value that     *)
(* does not start with the non-empty quote token neither begins nor ends   *)
(* with a space or tab, and when the comment token is not empty the token  *)
(* occurs nowhere in it.                                                   *)
(***************************************************************************)
C19_UnquotedValueIsClean ==
    ( /\ Parsed
      /\ ReachesValue(s, line)
      /\ ~StartsQuoted(s, RawValue(s, line))
      /\ nv.err = Nil ) =>
        /\ nv.v # <<>> => /\ nv.v[1] \notin {" ", "\t"}
                          /\ nv.v[Len(nv.v)] \notin {" ", "\t"}
        /\ s.Comment # <<>> =>
               \A i \in 1..Len(nv.v) :
                   SubSeq(nv.v, i, i + Len(s.Comment) - 1) # s.Comment

\* a raw value ending in whitespace and a comment has given a non-empty value
C19_Witness ==
    /\ Parsed
    /\ ReachesValue(s, line)
    /\ ~StartsQuoted(s, RawValue(s, line))
    /\ s.Comment # <<>>
    /\ nv.err = Nil
    /\ nv.v # <<>>
    /\ \E i \in 2..Len(RawValue(s, line)) :
           /\ RawValue(s, line)[i - 1] \in {" ", "\t"}
           /\ SubSeq(RawValue(s, line), i, i + Len(s.Comment) - 1) = s.Comment

=============================================================================
